---- MODULE Spec2Model ----
(***************************************************************************)
(* Model of flask_slack.slack.Slack: the command registry (Slack.command), *)
(* request dispatch (Slack.dispatch), validation (Slack.validate) and the  *)
(* response envelope (Slack.response).                                     *)
(*                                                                         *)
(* Python strings are sequences of one-character strings, so that          *)
(* str.strip and str.lstrip are computed and not assumed.  A formatted     *)
(* message is the sequence of its literal pieces and formatted values.     *)
(***************************************************************************)
EXTENDS Naturals, Sequences, FiniteSets, TLC

VARIABLES
    commands,     \* Slack._commands: command name -> (func, token, methods, kwargs)
    registered,   \* history: the tuple each registration stored, as stored
    phase,        \* "startup" while commands are registered, then "traffic"
    method,       \* dispatch: request.method of the last request
    data,         \* dispatch: the selected parameter source of the last request
    token,        \* dispatch: local `token`
    command,      \* dispatch: local `command`
    calls,        \* handler invocations made by the last dispatch
    result,       \* how the last dispatch ended
    ndispatch,    \* number of dispatches made
    threads,      \* concurrent dispatches: each request thread's position
                  \* in Slack.dispatch and its locals
    extract       \* command extraction alone: its input and its output

vars == <<commands, registered, phase, method, data, token, command, calls,
          result, ndispatch, threads, extract>>

\* The variables of one sequential dispatch
last == <<method, data, token, command, calls, result, ndispatch>>

----------------------------------------------------------------------------
(* Bounds *)

MaxDispatches == 2
MaxLen == 3

----------------------------------------------------------------------------
(* Values *)

\* Python's None; no string of the model equals it.
None == <<"None">>

Chars == {" ", "/", "a", "b"}

RECURSIVE StringsOfLen(_)
StringsOfLen(n) ==
    IF n = 0 THEN {<<>>}
    ELSE {<<c>> \o s : c \in Chars, s \in StringsOfLen(n - 1)}

Strings(n) == UNION {StringsOfLen(k) : k \in 0..n}

\* bool(v) for None and for strings
Truthy(v) == v # None /\ v # <<>>

\* '{}'.format(v) for None and for strings
Format(v) == IF v = None THEN <<"N", "o", "n", "e">> ELSE v

Whitespace == {" "}

\* Variant: at most one leading character is removed.
LStripOnce(s, chars) ==
    IF s # <<>> /\ Head(s) \in chars THEN Tail(s) ELSE s

\* str.lstrip(chars)
RECURSIVE LStrip(_, _)
LStrip(s, chars) ==
    IF s # <<>> /\ Head(s) \in chars THEN LStrip(Tail(s), chars) ELSE s

\* str.rstrip(chars)
RECURSIVE RStrip(_, _)
RStrip(s, chars) ==
    IF s # <<>> /\ s[Len(s)] \in chars
    THEN RStrip(SubSeq(s, 1, Len(s) - 1), chars)
    ELSE s

\* str.strip()
Strip(s) == RStrip(LStrip(s, Whitespace), Whitespace)

----------------------------------------------------------------------------
(* Parameter sources: request.args and request.form *)

\* MultiDict.get(key): the value, or None when the key is absent
Get(d, k) == IF k \in DOMAIN d THEN d[k] ELSE None

\* MultiDict.to_dict(): a fresh plain dict with the same items
ToDict(d) == [k \in DOMAIN d |-> d[k]]

\* dict.update(other): other's items laid over base's
Update(base, other) ==
    [k \in DOMAIN base \cup DOMAIN other |->
        IF k \in DOMAIN other THEN other[k] ELSE base[k]]

EmptyDict == [k \in {} |-> None]

\* A dict from a record of optional fields (None marks an absent key).
DictOf(rec) == [k \in {f \in DOMAIN rec : rec[f] # None} |-> rec[k]]

----------------------------------------------------------------------------
(* Slack.response *)

\* Variant: the attachments argument is passed on as given, None included.
ResponseKeepsNone(text, response_type, attachments) ==
    [response_type |-> response_type,
     text          |-> text,
     attachments   |-> attachments]

\* response(text, response_type='ephemeral', attachments=None): the mapping
\* handed to jsonify
Response(text, response_type, attachments) ==
    [response_type |-> response_type,
     text          |-> text,
     attachments   |-> IF attachments = None THEN <<>> ELSE attachments]

IsEnvelope(v) == DOMAIN v = {"response_type", "text", "attachments"}

----------------------------------------------------------------------------
(* Slack.validate *)

NoError == <<>>

\* Variant: the message names no command.
CommandNotFoundUnnamed(c) == <<"Command ">> \o <<" is not found">>

CommandNotFound(c) == <<"Command ">> \o Format(c) \o <<" is not found">>
MethodNotAllowed(m) == <<m>> \o <<" request is not allowed">>
InvalidToken(tok) == <<"Your token ">> \o Format(tok) \o <<" is invalid">>

\* Variant: the method test is inverted.
ValidateMethodInverted(cmds, c, tok, m) ==
    IF c \notin DOMAIN cmds THEN CommandNotFound(c)
    ELSE IF m \in cmds[c].methods THEN MethodNotAllowed(m)
    ELSE IF Truthy(cmds[c].token) /\ tok # cmds[c].token THEN InvalidToken(tok)
    ELSE NoError

\* Variant: the token is tested before the method.
ValidateTokenFirst(cmds, c, tok, m) ==
    IF c \notin DOMAIN cmds THEN CommandNotFound(c)
    ELSE IF Truthy(cmds[c].token) /\ tok # cmds[c].token THEN InvalidToken(tok)
    ELSE IF m \notin cmds[c].methods THEN MethodNotAllowed(m)
    ELSE NoError

\* Variant: only a None secret switches the token test off.
ValidateEmptySecretEnforced(cmds, c, tok, m) ==
    IF c \notin DOMAIN cmds THEN CommandNotFound(c)
    ELSE IF m \notin cmds[c].methods THEN MethodNotAllowed(m)
    ELSE IF cmds[c].token # None /\ tok # cmds[c].token THEN InvalidToken(tok)
    ELSE NoError

\* validate(command, token, method): the message of the SlackError raised,
\* or NoError when it returns normally
Validate(cmds, c, tok, m) ==
    IF c \notin DOMAIN cmds THEN CommandNotFound(c)
    ELSE IF m \notin cmds[c].methods THEN MethodNotAllowed(m)
    ELSE IF Truthy(cmds[c].token) /\ tok # cmds[c].token THEN InvalidToken(tok)
    ELSE NoError

----------------------------------------------------------------------------
(* Slack.dispatch *)

\* data = request.args; if method == 'POST': data = request.form
SelectData(m, args, form) == IF m = "POST" THEN form ELSE args

\* Variant: trigger_word is looked up before command.
ExtractCommandTriggerFirst(d) ==
    LET first == Get(d, "trigger_word")
        raw   == IF Truthy(first) THEN first ELSE Get(d, "command")
    IN  IF raw # None THEN LStrip(Strip(raw), {"/"}) ELSE raw

\* command = data.get('command') or data.get('trigger_word'), then
\* command.strip().lstrip('/') when it is a string
ExtractCommand(d) ==
    LET first == Get(d, "command")
        raw   == IF Truthy(first) THEN first ELSE Get(d, "trigger_word")
    IN  IF raw # None THEN LStrip(Strip(raw), {"/"}) ELSE raw

\* kwargs.update(data.to_dict()) on the dict held by the registry tuple
MergeKwargs(kwargs, d) == Update(kwargs, ToDict(d))

\* What the handlers of the model may do when called: return an envelope
\* built by Slack.response, return some other value, or raise.
Returned(v) == [kind |-> "return", value |-> v]
Raised(e) == [kind |-> "raise", value |-> [exception |-> e]]

HandlerOutcomes ==
    {Returned(Response(<<"pong">>, "ephemeral", None)),
     Returned([body |-> <<"plain">>]),
     Raised("HandlerError")}

NoResult == [kind |-> "none", value |-> [none |-> None]]

----------------------------------------------------------------------------
(* Inputs *)

Methods == {"GET", "POST"}

\* The registrations an application may make:
\* <<command, func, token, methods, kwargs>>
Registrations ==
    {<<<<"a">>, "f", None, {"GET"}, EmptyDict>>,
     <<<<"a">>, "g", <<"s">>, {"GET", "POST"}, [text |-> <<"dflt">>]>>,
     <<<<"b">>, "g", <<>>, {"POST"}, [channel |-> <<"ops">>]>>,
     <<<<"b">>, "f", <<"s">>, {"GET"}, EmptyDict>>}

CommandFields == {None, <<>>, <<" ", "/", "a", " ">>}
TriggerFields == {None, <<"/", "b">>}
TokenFields == {None, <<"s">>, <<"x">>}
TextFields == {None, <<"hi">>}

ParamSources ==
    {DictOf([command |-> c, trigger_word |-> w, token |-> t, text |-> x]) :
        c \in CommandFields, w \in TriggerFields, t \in TokenFields,
        x \in TextFields}

\* What the source not selected by the method may hold.
OtherSources == {[command |-> <<"a">>, token |-> <<"s">>]}

\* The requests of the concurrent dispatches.
ConcSources ==
    {[command |-> <<" ", "/", "a", " ">>, token |-> <<"s">>, text |-> <<"hi">>],
     [command |-> <<" ", "/", "a", " ">>, token |-> <<"s">>],
     [command |-> <<" ", "/", "a", " ">>],
     [trigger_word |-> <<"/", "b">>, token |-> <<"x">>]}

Threads == {"t1", "t2"}

\* The parameter sources command extraction is applied to.
ExtractSources ==
    {DictOf([command |-> c, trigger_word |-> w]) :
        c \in {None} \cup Strings(MaxLen), w \in {None} \cup Strings(MaxLen)}

----------------------------------------------------------------------------
(* The program *)

IdleThread ==
    [pc |-> "idle", method |-> None, data |-> EmptyDict, token |-> None,
     command |-> None, calls |-> <<>>, result |-> NoResult]

NoExtract == [data |-> EmptyDict, command |-> None, done |-> FALSE]

Init ==
    /\ commands = EmptyDict
    /\ registered = EmptyDict
    /\ phase = "startup"
    /\ method = None
    /\ data = EmptyDict
    /\ token = None
    /\ command = None
    /\ calls = <<>>
    /\ result = NoResult
    /\ ndispatch = 0
    /\ threads = [t \in Threads |-> IdleThread]
    /\ extract = NoExtract

\* @slack.command(c, token=tok, methods=ms, **kw) applied to func
Register(c, func, tok, ms, kw) ==
    /\ phase = "startup"
    /\ LET rec == [func |-> func, token |-> tok, methods |-> ms, kwargs |-> kw]
       IN  /\ commands' = [k \in DOMAIN commands \cup {c} |->
                              IF k = c THEN rec ELSE commands[k]]
           /\ registered' = [k \in DOMAIN registered \cup {c} |->
                              IF k = c THEN rec ELSE registered[k]]
    /\ UNCHANGED <<phase, last, threads, extract>>

\* The application starts to serve requests.
StartTraffic ==
    /\ phase = "startup"
    /\ phase' = "traffic"
    /\ UNCHANGED <<commands, registered, last, threads, extract>>

\* One call of Slack.dispatch for the request (m, args, form)
Dispatch(m, args, form) ==
    /\ phase = "traffic"
    /\ ndispatch < MaxDispatches
    /\ ndispatch' = ndispatch + 1
    /\ LET d   == SelectData(m, args, form)
           tok == Get(d, "token")
           c   == ExtractCommand(d)
           err == Validate(commands, c, tok, m)
       IN  /\ method' = m
           /\ data' = d
           /\ token' = tok
           /\ command' = c
           /\ IF err # NoError
              THEN /\ result' = Returned(Response(err, "ephemeral", None))
                   /\ calls' = <<>>
                   /\ UNCHANGED commands
              ELSE LET kwargs == MergeKwargs(commands[c].kwargs, d)
                   IN  /\ commands' = [commands EXCEPT ![c].kwargs = kwargs]
                       /\ \E outcome \in HandlerOutcomes :
                            /\ calls' = <<[func    |-> commands[c].func,
                                           kwargs  |-> kwargs,
                                           outcome |-> outcome]>>
                            /\ result' = outcome
    /\ UNCHANGED <<registered, phase, threads, extract>>

Next ==
    \/ \E r \in Registrations : Register(r[1], r[2], r[3], r[4], r[5])
    \/ StartTraffic
    \/ \E m \in Methods, src \in ParamSources, other \in OtherSources :
         \/ Dispatch(m, src, other)
         \/ Dispatch(m, other, src)

Spec == Init /\ [][Next]_vars

----------------------------------------------------------------------------
(* Concurrent dispatches: one request per thread, interleaved statement by *)
(* statement.  The local `kwargs` of a thread is the dict of the registry  *)
(* tuple itself, so it is read through `commands`.                         *)

\* dispatch, lines 51-61: method, data, token and command are read
Begin(t, m, args, form) ==
    /\ phase = "traffic"
    /\ threads[t].pc = "idle"
    /\ LET d == SelectData(m, args, form)
       IN  threads' = [threads EXCEPT ![t] =
                          [@ EXCEPT !.pc = "validate", !.method = m, !.data = d,
                                    !.token = Get(d, "token"),
                                    !.command = ExtractCommand(d)]]
    /\ UNCHANGED <<commands, registered, phase, last, extract>>

\* dispatch, lines 63-66: validate, and the answer to a SlackError
ValidateStep(t) ==
    /\ threads[t].pc = "validate"
    /\ LET th  == threads[t]
           err == Validate(commands, th.command, th.token, th.method)
       IN  threads' = [threads EXCEPT ![t] =
                          IF err # NoError
                          THEN [@ EXCEPT !.pc = "done",
                                         !.result = Returned(
                                            Response(err, "ephemeral", None))]
                          ELSE [@ EXCEPT !.pc = "merge"]]
    /\ UNCHANGED <<commands, registered, phase, last, extract>>

\* dispatch, lines 68-69: the registry tuple is unpacked and its kwargs
\* dict updated in place
MergeStep(t) ==
    /\ threads[t].pc = "merge"
    /\ LET c == threads[t].command
       IN  commands' = [commands EXCEPT ![c].kwargs =
                           MergeKwargs(commands[c].kwargs, threads[t].data)]
    /\ threads' = [threads EXCEPT ![t].pc = "call"]
    /\ UNCHANGED <<registered, phase, last, extract>>

\* dispatch, line 71: the handler is called with the dict as it is now
CallStep(t) ==
    /\ threads[t].pc = "call"
    /\ \E outcome \in HandlerOutcomes :
         LET c == threads[t].command
         IN  threads' = [threads EXCEPT ![t] =
                            [@ EXCEPT !.pc = "done",
                                      !.calls = <<[func    |-> commands[c].func,
                                                   kwargs  |-> commands[c].kwargs,
                                                   outcome |-> outcome]>>,
                                      !.result = outcome]]
    /\ UNCHANGED <<commands, registered, phase, last, extract>>

NextConc ==
    \/ \E r \in Registrations : Register(r[1], r[2], r[3], r[4], r[5])
    \/ StartTraffic
    \/ \E t \in Threads, m \in Methods, src \in ConcSources,
          other \in OtherSources :
         \/ Begin(t, m, src, other)
         \/ Begin(t, m, other, src)
    \/ \E t \in Threads : ValidateStep(t)
    \/ \E t \in Threads : MergeStep(t)
    \/ \E t \in Threads : CallStep(t)

SpecConc == Init /\ [][NextConc]_vars

----------------------------------------------------------------------------
(* Command extraction applied to every parameter source of the bound *)

InitExtract ==
    /\ commands = EmptyDict
    /\ registered = EmptyDict
    /\ phase = "startup"
    /\ method = None
    /\ data = EmptyDict
    /\ token = None
    /\ command = None
    /\ calls = <<>>
    /\ result = NoResult
    /\ ndispatch = 0
    /\ threads = [t \in Threads |-> IdleThread]
    /\ extract \in {[data |-> d, command |-> None, done |-> FALSE] :
                        d \in ExtractSources}

\* dispatch, lines 58-61
Extract ==
    /\ ~extract.done
    /\ extract' = [extract EXCEPT !.command = ExtractCommand(extract.data),
                                  !.done = TRUE]
    /\ UNCHANGED <<commands, registered, phase, last, threads>>

NextExtract == Extract

SpecExtract == InitExtract /\ [][NextExtract]_vars

----------------------------------------------------------------------------
(* Properties of one dispatch, stated on the state it leaves behind *)

Dispatched == ndispatch > 0
Registered == command \in DOMAIN commands
Invoked == Len(calls) = 1
SecretUnset(c) == commands[c].token = None \/ commands[c].token = <<>>

\* The text a value takes inside a message.
Shown(v) == IF v = None THEN <<"N", "o", "n", "e">> ELSE v

ErrorEnvelope(text) ==
    [kind |-> "return",
     value |-> [response_type |-> "ephemeral", text |-> text,
                attachments |-> <<>>]]

\* C1: a request for a registered command, with an allowed method and the
\* command's secret as token, invokes that command's handler exactly once and
\* no other, and ends as the handler ends: the handler's return value is the
\* result of the dispatch, unchanged.
C1_DispatchInvokesHandler ==
    (/\ Dispatched
     /\ Registered
     /\ method \in commands[command].methods
     /\ token = commands[command].token)
    => /\ Invoked
       /\ calls[1].func = commands[command].func
       /\ result = calls[1].outcome

C1_Witness ==
    /\ Dispatched
    /\ Registered
    /\ method \in commands[command].methods
    /\ token = commands[command].token
    /\ token = <<"s">>
    /\ Cardinality(DOMAIN commands) = 2
    /\ Invoked
    /\ result.kind = "return"

\* C2: a command name that is no key of the registry (the None of a request
\* with neither a command nor a trigger_word field included) invokes no
\* handler and is answered by the ephemeral envelope "Command c' is not
\* found" with no attachments.
C2_UnknownCommand ==
    (Dispatched /\ ~Registered)
    => /\ calls = <<>>
       /\ result = ErrorEnvelope(<<"Command ">> \o Shown(command)
                                    \o <<" is not found">>)

C2_Witness ==
    /\ Dispatched
    /\ commands # EmptyDict
    /\ "command" \notin DOMAIN data
    /\ "trigger_word" \notin DOMAIN data
    /\ command = None
    /\ result.value.text = <<"Command ", "N", "o", "n", "e", " is not found">>

\* C3: validate reports the first failing check only, in the order unknown
\* command, method not allowed, invalid token.
C3_ValidationOrder ==
    Dispatched =>
       /\ ~Registered
            => result = ErrorEnvelope(<<"Command ">> \o Shown(command)
                                         \o <<" is not found">>)
       /\ (Registered /\ method \notin commands[command].methods)
            => result = ErrorEnvelope(<<method, " request is not allowed">>)
       /\ (/\ Registered
           /\ method \in commands[command].methods
           /\ ~SecretUnset(command)
           /\ token # commands[command].token)
            => result = ErrorEnvelope(<<"Your token ">> \o Shown(token)
                                         \o <<" is invalid">>)

C3_Witness ==
    /\ Dispatched
    /\ Registered
    /\ method \notin commands[command].methods
    /\ ~SecretUnset(command)
    /\ token # commands[command].token
    /\ result = ErrorEnvelope(<<method, " request is not allowed">>)

\* C4: for a registered command requested with an allowed method the handler
\* is invoked exactly when the secret is unset (None or empty) or equals the
\* supplied token; otherwise no handler runs and the answer is "Your token
\* {token} is invalid".
C4_TokenCheck ==
    (Dispatched /\ Registered /\ method \in commands[command].methods)
    => /\ Invoked <=> (SecretUnset(command) \/ commands[command].token = token)
       /\ ~Invoked
            => /\ calls = <<>>
               /\ result = ErrorEnvelope(<<"Your token ">> \o Shown(token)
                                            \o <<" is invalid">>)

C4_Witness ==
    /\ Dispatched
    /\ Registered
    /\ commands[command].token = <<>>
    /\ token = <<"x">>
    /\ Invoked

C4_WitnessRejected ==
    /\ Dispatched
    /\ Registered
    /\ method \in commands[command].methods
    /\ commands[command].token = <<"s">>
    /\ token = None
    /\ result = ErrorEnvelope(<<"Your token ", "N", "o", "n", "e",
                                " is invalid">>)

\* C5 as stated: every dispatch, whatever the handler does, ends by
\* returning one envelope {response_type, text, attachments}.
C5_AlwaysEnvelope ==
    Dispatched => (result.kind = "return" /\ IsEnvelope(result.value))

\* C5 amended: a dispatch that fails validation invokes no handler and
\* returns one ephemeral envelope without attachments; a dispatch that
\* passes validation ends as its handler ends, with the handler's return
\* value, envelope or not, or with the handler's exception.
C5_EnvelopeOnValidationFailure ==
    Dispatched =>
       /\ ~Invoked
            => /\ calls = <<>>
               /\ result.kind = "return"
               /\ IsEnvelope(result.value)
               /\ result.value.response_type = "ephemeral"
               /\ result.value.attachments = <<>>
       /\ Invoked => result = calls[1].outcome

C5_Witness ==
    /\ Dispatched
    /\ Registered
    /\ ~Invoked
    /\ IsEnvelope(result.value)

C5_WitnessRaise ==
    /\ Dispatched
    /\ Invoked
    /\ result.kind = "raise"

\* C6: the registry is read-only during request handling: every record is
\* what its registration stored.
C6_RegistryReadOnly == commands = registered

\* C9: the handler of a successful dispatch receives exactly the request's
\* parameter source laid over the registered extraParams, and nothing of an
\* earlier request.
C9_NoStateBetweenRequests ==
    (Dispatched /\ Invoked)
    => calls[1].kwargs = Update(registered[command].kwargs, data)

----------------------------------------------------------------------------
(* Properties of command extraction *)

HasCommand == "command" \in DOMAIN extract.data
HasTrigger == "trigger_word" \in DOMAIN extract.data

\* t is s without its leading and trailing whitespace
IsTrimOf(t, s) ==
    /\ t = <<>> \/ (t[1] \notin Whitespace /\ t[Len(t)] \notin Whitespace)
    /\ \E i \in 0..Len(s) :
         /\ i + Len(t) <= Len(s)
         /\ SubSeq(s, i + 1, i + Len(t)) = t
         /\ \A k \in 1..Len(s) :
              (k <= i \/ k > i + Len(t)) => s[k] \in Whitespace

Infixes(s) == {SubSeq(s, i, j) : i \in 1..(Len(s) + 1), j \in 0..Len(s)}

\* The requests whose raw command string is beyond dispute: a non-empty
\* command field, or a trigger_word field and no command field.
RawIsCommand == HasCommand /\ extract.data.command # <<>>
RawIsTrigger == ~HasCommand /\ HasTrigger
RawString ==
    IF RawIsCommand THEN extract.data.command ELSE extract.data.trigger_word

C8_CommandFieldWins ==
    extract.done =>
       /\ HasCommand
            => extract.command =
                  ExtractCommand([command |-> extract.data.command])
       /\ (~HasCommand /\ HasTrigger
              /\ extract.data.trigger_word = <<"/", "a">>)
            => extract.command = <<"a">>

\* C8 amended: whenever the command field is present and not empty, the
\* trigger_word field has no influence on the extracted command; when the
\* command field is absent or empty the command is extracted from the
\* trigger_word field, so trigger_word "/a" gives "a".
C8_NonEmptyCommandFieldWins ==
    extract.done =>
       /\ (HasCommand /\ extract.data.command # <<>>)
            => extract.command =
                  ExtractCommand([command |-> extract.data.command])
       /\ (HasTrigger /\ (~HasCommand \/ extract.data.command = <<>>))
            => extract.command =
                  ExtractCommand([trigger_word |-> extract.data.trigger_word])
       /\ (~HasCommand /\ HasTrigger
              /\ extract.data.trigger_word = <<"/", "a">>)
            => extract.command = <<"a">>

C8_Witness ==
    /\ extract.done
    /\ HasCommand
    /\ HasTrigger
    /\ extract.data.command = <<"a">>
    /\ extract.data.trigger_word = <<"/", "b">>
    /\ extract.command = <<"a">>

----------------------------------------------------------------------------
(* Properties of concurrent dispatches *)

\* C10: a dispatch that runs while another is in flight invokes its handler
\* with its own request's parameters laid over the registered extraParams,
\* never with parameters of the other request.
C10_ConcurrentIsolation ==
    \A t \in Threads :
       (/\ threads[t].pc = "done"
        /\ Len(threads[t].calls) = 1
        /\ \A u \in Threads \ {t} : threads[u].pc \in {"merge", "call"})
       => threads[t].calls[1].kwargs =
             Update(registered[threads[t].command].kwargs, threads[t].data)

====
